---------------------------- MODULE Spec2Model ----------------------------
(***************************************************************************)
(* A model of the Enigma encoder of enigma/encoder.py and of the indicator *)
(* protocol of enigma/views.py.                                            *)
(*                                                                         *)
(* A character is a one-character string, a Python str is the sequence of  *)
(* its characters, and Python's None is the value None below.  Offsets and *)
(* the results of find_rotor_offset keep Python's 0-based values; 1 is     *)
(* added where a TLA+ sequence is indexed.                                 *)
(***************************************************************************)
EXTENDS Integers, Sequences, FiniteSets, TLC

VARIABLES
    setting,          \* the EnigmaSetting object the caller holds and passes in
    message,          \* the message argument of the running encode call
    pc,               \* position of the running encode call
    cur,              \* _rotor_encode's local name `setting` (rebound per character)
    encoded_message,  \* the local encoded_message of encode / _rotor_encode
    result,           \* outcome of the last finished call (value or exception)
    plugged,          \* the plugboard's output, _rotor_encode's argument `message`
    count,            \* how many advances, character encodings and substitutions the call made
    orig,             \* the message of the first encode call of the run
    round,            \* which of the two successive encode calls is running
    prev,             \* the Setting before the last _advance_rotors call
    call,             \* the last call made to one of the functions, with its outcome
    codebook_data,    \* views.py: the day's codebook settings with the rotor data
    heap,             \* the Setting objects that concurrent encode calls are handed
    runs              \* the locals of each of the concurrent encode calls

vars == <<setting, message, pc, cur, plugged, encoded_message, result, count,
          orig, round, prev, call, codebook_data, heap, runs>>

----------------------------------------------------------------------------
(* Characters and Python's str primitives *)

UpperCase ==
    <<"A", "B", "C", "D", "E", "F", "G", "H", "I", "J", "K", "L", "M",
    "N", "O", "P", "Q", "R", "S", "T", "U", "V", "W", "X", "Y", "Z">>

LowerCase ==
    <<"a", "b", "c", "d", "e", "f", "g", "h", "i", "j", "k", "l", "m",
    "n", "o", "p", "q", "r", "s", "t", "u", "v", "w", "x", "y", "z">>

\* Non-letters of the model's character universe, with their code points.
OtherChars == {"1", "\n", " ", "-"}

None == <<"<None>">>

IsNone(x) == x = None

Range(s) == {s[i] : i \in 1..Len(s)}

IsUpper(c) == \E i \in 1..26 : UpperCase[i] = c

IsLower(c) == \E i \in 1..26 : LowerCase[i] = c

\* ord(): the code point of a character
ord(c) ==
    IF IsUpper(c) THEN 64 + (CHOOSE i \in 1..26 : UpperCase[i] = c)
    ELSE IF IsLower(c) THEN 96 + (CHOOSE i \in 1..26 : LowerCase[i] = c)
    ELSE CASE c = "\n" -> 10
           [] c = " " -> 32
           [] c = "-" -> 45
           [] c = "1" -> 49

\* chr(), on the code points the encoder passes to it (65..90)
chr(n) == UpperCase[n - 64]

\* str.upper() of one character
upper(c) == IF IsLower(c) THEN UpperCase[CHOOSE i \in 1..26 : LowerCase[i] = c] ELSE c

\* str.upper() of a string
Upper(s) == [i \in 1..Len(s) |-> upper(s[i])]

\* Python's % with a positive modulus: the result is in 0..n-1 for a negative
\* left operand too
PyMod(a, n) == ((a % n) + n) % n

----------------------------------------------------------------------------
(* enigma/encoder.py *)

RotorSetting(sequence, notches, offset) ==
    [sequence |-> sequence, notches |-> notches, offset |-> offset]

EnigmaSetting(rotors, plugs, reflector) ==
    [rotors |-> rotors, plugs |-> plugs, reflector |-> reflector]

Ok(v) == [kind |-> "return", value |-> v]

Raise(e) == [kind |-> "raise", value |-> e]

\* re.compile(r'^[A-Za-z]+$') applied with re.match: one or more letters from
\* the start, then the end of the string or a newline that ends the string
\* ($ without re.MULTILINE matches before a trailing newline).
_alphabetic(s) ==
    \E k \in 1..Len(s) :
        /\ \A i \in 1..k : IsUpper(s[i]) \/ IsLower(s[i])
        /\ \/ k = Len(s)
           \/ k = Len(s) - 1 /\ s[Len(s)] = "\n"

_is_encodable(m) == _alphabetic(m)

\* a plug loop that swaps only the first letter of a pair for the second
RECURSIVE SubstituteCharOneWay(_, _)
SubstituteCharOneWay(character, plugs) ==
    IF plugs = <<>> THEN character
    ELSE LET plug == Head(plugs) IN
         IF IsNone(plug) \/ Len(plug) # 2
         THEN SubstituteCharOneWay(character, Tail(plugs))
         ELSE IF character = plug[1] THEN plug[2]
              ELSE SubstituteCharOneWay(character, Tail(plugs))

\* a plug loop that stops at the first malformed plug instead of skipping it
RECURSIVE SubstituteCharStopsAtMalformed(_, _)
SubstituteCharStopsAtMalformed(character, plugs) ==
    IF plugs = <<>> THEN character
    ELSE LET plug == Head(plugs) IN
         IF IsNone(plug) \/ Len(plug) # 2
         THEN character
         ELSE IF character \in Range(plug)
              THEN (IF character = plug[1] THEN plug[2] ELSE plug[1])
              ELSE SubstituteCharStopsAtMalformed(character, Tail(plugs))

\* the loop over setting.plugs for one character of _substitute
RECURSIVE SubstituteChar(_, _)
SubstituteChar(character, plugs) ==
    IF plugs = <<>> THEN character
    ELSE LET plug == Head(plugs) IN
         IF IsNone(plug) \/ Len(plug) # 2
         THEN SubstituteChar(character, Tail(plugs))
         ELSE IF character \in Range(plug)
              THEN (IF character = plug[1] THEN plug[2] ELSE plug[1])
              ELSE SubstituteChar(character, Tail(plugs))

_substitute(m, s) ==
    IF IsNone(m) THEN <<>>
    ELSE [i \in 1..Len(m) |-> SubstituteChar(m[i], s.plugs)]

_char_to_int(character) == ord(upper(character)) - 65

find_rotor_offset(character, sequence) ==
    IF \E i \in 1..Len(sequence) : sequence[i] = character
    THEN (CHOOSE i \in 1..Len(sequence) :
            /\ sequence[i] = character
            /\ \A j \in 1..(i - 1) : sequence[j] # character) - 1
    ELSE -1

\* a reverse pass that adds the offset instead of subtracting it
ReverseEncodeAddsOffset(character, rotor) ==
    LET found == find_rotor_offset(character, rotor.sequence)
        res == IF found = -1 THEN Len(rotor.sequence) ELSE found
    IN  chr(PyMod(res + rotor.offset, 26) + 65)

_reverse_encode_rotor(character, rotor) ==
    LET found == find_rotor_offset(character, rotor.sequence)
        res == IF found = -1 THEN Len(rotor.sequence) ELSE found
    IN  chr(PyMod(res - rotor.offset + 26, 26) + 65)

\* the notch loop of _advance_rotors for one rotor
AtNotch(rotor) ==
    \E n \in 1..Len(rotor.notches) :
        find_rotor_offset(rotor.notches[n], rotor.sequence) = rotor.offset

\* a loop that looks at every rotor's notch, also of a rotor that stays put
RECURSIVE AdvanceFromAnyNotch(_, _, _)
AdvanceFromAnyNotch(rotors, i, rotate_next_rotor) ==
    IF i = 0 THEN rotors
    ELSE LET rotor == rotors[i]
             rotor_offset == IF rotate_next_rotor
                             THEN PyMod(rotor.offset + 1, 26)
                             ELSE rotor.offset
         IN  AdvanceFromAnyNotch(
                 [rotors EXCEPT ![i] = RotorSetting(rotor.sequence, rotor.notches, rotor_offset)],
                 i - 1,
                 AtNotch(rotor))

\* a loop that adds one to the offset without reducing it modulo 26
RECURSIVE AdvanceFromNoWrap(_, _, _)
AdvanceFromNoWrap(rotors, i, rotate_next_rotor) ==
    IF i = 0 THEN rotors
    ELSE LET rotor == rotors[i]
             rotor_offset == IF rotate_next_rotor
                             THEN rotor.offset + 1
                             ELSE rotor.offset
         IN  AdvanceFromNoWrap(
                 [rotors EXCEPT ![i] = RotorSetting(rotor.sequence, rotor.notches, rotor_offset)],
                 i - 1,
                 rotate_next_rotor /\ AtNotch(rotor))

\* the double step of the historical machine: a rotor that rests at its own
\* notch moves in the next step and takes its left neighbour along
RECURSIVE AdvanceFromDoubleStep(_, _, _)
AdvanceFromDoubleStep(rotors, i, rotate_next_rotor) ==
    IF i = 0 THEN rotors
    ELSE LET rotor == rotors[i]
             moves == rotate_next_rotor \/ (1 < i /\ i < Len(rotors) /\ AtNotch(rotor))
             rotor_offset == IF moves THEN PyMod(rotor.offset + 1, 26) ELSE rotor.offset
         IN  AdvanceFromDoubleStep(
                 [rotors EXCEPT ![i] = RotorSetting(rotor.sequence, rotor.notches, rotor_offset)],
                 i - 1,
                 moves /\ AtNotch(rotor))

\* a loop that reduces the new offset modulo 25
RECURSIVE AdvanceFromModulo25(_, _, _)
AdvanceFromModulo25(rotors, i, rotate_next_rotor) ==
    IF i = 0 THEN rotors
    ELSE LET rotor == rotors[i]
             rotor_offset == IF rotate_next_rotor
                             THEN PyMod(rotor.offset + 1, 25)
                             ELSE rotor.offset
         IN  AdvanceFromModulo25(
                 [rotors EXCEPT ![i] = RotorSetting(rotor.sequence, rotor.notches, rotor_offset)],
                 i - 1,
                 rotate_next_rotor /\ AtNotch(rotor))

\* the loop of _advance_rotors over setting.rotors[::-1], from rotor i leftwards
RECURSIVE AdvanceFrom(_, _, _)
AdvanceFrom(rotors, i, rotate_next_rotor) ==
    IF i = 0 THEN rotors
    ELSE LET rotor == rotors[i]
             rotor_offset == IF rotate_next_rotor
                             THEN PyMod(rotor.offset + 1, 26)
                             ELSE rotor.offset
         IN  AdvanceFrom(
                 [rotors EXCEPT ![i] = RotorSetting(rotor.sequence, rotor.notches, rotor_offset)],
                 i - 1,
                 rotate_next_rotor /\ AtNotch(rotor))

_advance_rotors(s) ==
    EnigmaSetting(AdvanceFrom(s.rotors, Len(s.rotors), TRUE), s.plugs, s.reflector)

\* a first loop that reads the wiring at the letter's own index, whatever the
\* offset
RECURSIVE ForwardPassIgnoresOffset(_, _, _)
ForwardPassIgnoresOffset(new_char, rotors, i) ==
    IF i = 0 THEN new_char
    ELSE LET index == PyMod(_char_to_int(new_char), 26)
         IN  ForwardPassIgnoresOffset(rotors[i].sequence[index + 1], rotors, i - 1)

\* first loop of _encode_char: rotors[::-1], from rotor i leftwards
RECURSIVE ForwardPass(_, _, _)
ForwardPass(new_char, rotors, i) ==
    IF i = 0 THEN new_char
    ELSE LET index == PyMod(_char_to_int(new_char) + rotors[i].offset, 26)
         IN  ForwardPass(rotors[i].sequence[index + 1], rotors, i - 1)

\* a second loop that goes over the rotors from right to left again
RECURSIVE ReversePassRightToLeft(_, _, _)
ReversePassRightToLeft(new_char, rotors, i) ==
    IF i > Len(rotors) THEN new_char
    ELSE ReversePassRightToLeft(
             _reverse_encode_rotor(new_char, rotors[Len(rotors) + 1 - i]), rotors, i + 1)

\* second loop of _encode_char: rotors left to right, from rotor i rightwards
RECURSIVE ReversePass(_, _, _)
ReversePass(new_char, rotors, i) ==
    IF i > Len(rotors) THEN new_char
    ELSE ReversePass(_reverse_encode_rotor(new_char, rotors[i]), rotors, i + 1)

\* an _encode_char that turns back at the last rotor without the reflector
EncodeCharWithoutReflector(character, s) ==
    LET forward == ForwardPass(character, s.rotors, Len(s.rotors))
    IN  ReversePass(forward, s.rotors, 1)

_encode_char(character, s) ==
    LET forward == ForwardPass(character, s.rotors, Len(s.rotors))
        reflected == s.reflector[_char_to_int(forward) + 1]
    IN  ReversePass(reflected, s.rotors, 1)

\* the loop of _rotor_encode from character i on
RECURSIVE RotorEncodeFrom(_, _, _, _)
RotorEncodeFrom(m, s, i, acc) ==
    IF i > Len(m) THEN acc
    ELSE LET advanced == _advance_rotors(s)
         IN  RotorEncodeFrom(m, advanced, i + 1, Append(acc, _encode_char(m[i], advanced)))

_rotor_encode(m, s) == RotorEncodeFrom(m, s, 1, <<>>)

\* a re-keying that turns each rotor on from the offset it had
WithIndicatorFromOffset(s, indicator) ==
    IF Len(indicator) < Len(s.rotors) THEN Raise("IndexError")
    ELSE Ok(EnigmaSetting(
                [i \in 1..Len(s.rotors) |->
                    RotorSetting(s.rotors[i].sequence, s.rotors[i].notches,
                                 PyMod(s.rotors[i].offset
                                       + find_rotor_offset(indicator[i], s.rotors[i].sequence),
                                       26))],
                s.plugs, s.reflector))

\* EnigmaSetting.with_indicator: indicator[rotor_index] raises IndexError once
\* the rotors outnumber the indicator's characters; further characters of a
\* longer indicator are never read
with_indicator(s, indicator) ==
    IF Len(indicator) < Len(s.rotors) THEN Raise("IndexError")
    ELSE Ok(EnigmaSetting(
                [i \in 1..Len(s.rotors) |->
                    RotorSetting(s.rotors[i].sequence, s.rotors[i].notches,
                                 find_rotor_offset(indicator[i], s.rotors[i].sequence))],
                s.plugs, s.reflector))

encode(m, s) ==
    IF ~_is_encodable(m) THEN Raise("UnencodableMessageError")
    ELSE Ok(_substitute(_rotor_encode(_substitute(Upper(m), s), s), s))

----------------------------------------------------------------------------
(* enigma/views.py *)

\* s[a:b] of a Python str
Slice(s, a, b) == SubSeq(s, a + 1, IF b < Len(s) THEN b ELSE Len(s))

\* encoder.rotor_encode(message, indicator, rotor_data, reflector), which
\* views.py imports: the rotors of rotor_data set to the indicator, then the
\* message through the stepping rotors and the reflector (no plugboard)
rotor_encode(m, indicator, rotor_data, reflector) ==
    LET keyed == with_indicator(
                     EnigmaSetting(
                         [i \in 1..Len(rotor_data) |->
                             RotorSetting(rotor_data[i][1], rotor_data[i][2], 0)],
                         <<>>, reflector),
                     indicator)
    IN  IF keyed.kind = "raise" THEN keyed
        ELSE Ok(_rotor_encode(m, keyed.value))

\* encoder.substitute(message, plug_settings), which views.py imports
substitute(m, plug_settings) == _substitute(m, EnigmaSetting(<<>>, plug_settings, <<>>))

\* a _decode that refuses a frame with nothing after the two prefixes
DecodeNeedsBody(m, cb) ==
    LET r == Len(cb.rotor_data)
        ii == rotor_encode(Slice(Upper(m), 0, r), cb.day_indicator,
                           cb.rotor_data, cb.reflector)
    IN  IF Len(m) <= 2 * r THEN Raise("UnencodableMessageError")
        ELSE IF ii.kind = "raise" THEN ii
        ELSE
        LET mi == rotor_encode(Slice(Upper(m), r, 2 * r),
                               substitute(ii.value, cb.plug_settings),
                               cb.rotor_data, cb.reflector)
        IN  IF mi.kind = "raise" THEN mi
            ELSE
            LET encoded == rotor_encode(Slice(Upper(m), 2 * r, Len(m)),
                                        substitute(mi.value, cb.plug_settings),
                                        cb.rotor_data, cb.reflector)
            IN  IF encoded.kind = "raise" THEN encoded
                ELSE Ok(substitute(encoded.value, cb.plug_settings))

_decode(m, cb) ==
    LET rotor_count == Len(cb.rotor_data)
        indicator_prefix == Slice(Upper(m), 0, rotor_count)
        encoded_ii == rotor_encode(indicator_prefix, cb.day_indicator,
                                   cb.rotor_data, cb.reflector)
    IN  IF encoded_ii.kind = "raise" THEN encoded_ii
        ELSE
        LET indicator_indicator == substitute(encoded_ii.value, cb.plug_settings)
            message_prefix == Slice(Upper(m), rotor_count, 2 * rotor_count)
            encoded_mi == rotor_encode(message_prefix, indicator_indicator,
                                       cb.rotor_data, cb.reflector)
        IN  IF encoded_mi.kind = "raise" THEN encoded_mi
            ELSE
            LET message_indicator == substitute(encoded_mi.value, cb.plug_settings)
                new_message == Slice(Upper(m), 2 * rotor_count, Len(m))
                encoded == rotor_encode(new_message, message_indicator,
                                        cb.rotor_data, cb.reflector)
            IN  IF encoded.kind = "raise" THEN encoded
                ELSE Ok(substitute(encoded.value, cb.plug_settings))

\* an _encode that keys the body with the indicator indicator
EncodeBodyUnderFirstKey(m, indicator_indicator, message_indicator, cb) ==
    LET indicator_prefix ==
            rotor_encode(substitute(Upper(indicator_indicator), cb.plug_settings),
                         cb.day_indicator, cb.rotor_data, cb.reflector)
        message_prefix ==
            rotor_encode(substitute(Upper(message_indicator), cb.plug_settings),
                         indicator_indicator, cb.rotor_data, cb.reflector)
        new_message ==
            rotor_encode(substitute(Upper(m), cb.plug_settings),
                         indicator_indicator, cb.rotor_data, cb.reflector)
    IN  IF indicator_prefix.kind = "raise" THEN indicator_prefix
        ELSE IF message_prefix.kind = "raise" THEN message_prefix
        ELSE IF new_message.kind = "raise" THEN new_message
        ELSE Ok(indicator_prefix.value \o message_prefix.value \o new_message.value)

_encode(m, indicator_indicator, message_indicator, cb) ==
    LET indicator_prefix ==
            rotor_encode(substitute(Upper(indicator_indicator), cb.plug_settings),
                         cb.day_indicator, cb.rotor_data, cb.reflector)
        message_prefix ==
            rotor_encode(substitute(Upper(message_indicator), cb.plug_settings),
                         indicator_indicator, cb.rotor_data, cb.reflector)
        new_message ==
            rotor_encode(substitute(Upper(m), cb.plug_settings),
                         message_indicator, cb.rotor_data, cb.reflector)
    IN  IF indicator_prefix.kind = "raise" THEN indicator_prefix
        ELSE IF message_prefix.kind = "raise" THEN message_prefix
        ELSE IF new_message.kind = "raise" THEN new_message
        ELSE Ok(indicator_prefix.value \o message_prefix.value \o new_message.value)

----------------------------------------------------------------------------
(* Inputs: wirings, Settings and messages the runs are started with *)

\* longest message drawn from MessageChars
MaxLen == 3

\* a rotor that changes nothing (tests/test_encoder.py)
Identity == UpperCase

\* the right rotor of test_advance_rotors
RotorI ==
    <<"E", "K", "M", "F", "L", "G", "D", "Q", "V", "Z", "N", "T", "O",
    "W", "Y", "H", "X", "U", "S", "P", "A", "I", "B", "R", "C", "J">>

\* the identity wiring rotated by one position (test_encode_char)
Shifted ==
    <<"B", "C", "D", "E", "F", "G", "H", "I", "J", "K", "L", "M", "N",
    "O", "P", "Q", "R", "S", "T", "U", "V", "W", "X", "Y", "Z", "A">>

\* the reflector of the tests: the alphabet reversed
Reversing ==
    <<"Z", "Y", "X", "W", "V", "U", "T", "S", "R", "Q", "P", "O", "N",
    "M", "L", "K", "J", "I", "H", "G", "F", "E", "D", "C", "B", "A">>

\* a second involution: neighbours swapped
Neighbours ==
    <<"B", "A", "D", "C", "F", "E", "H", "G", "J", "I", "L", "K", "N",
    "M", "P", "O", "R", "Q", "T", "S", "V", "U", "X", "W", "Z", "Y">>

TestMessage ==
    <<"T", "H", "E", "Q", "U", "I", "C", "K", "F", "O", "X", "J", "U",
    "M", "P", "S", "O", "V", "E", "R", "T", "H", "E", "L", "A", "Z", "Y",
    "D", "O", "G">>

TestEncoded ==
    <<"E", "O", "P", "B", "V", "F", "J", "Z", "C", "R", "G", "S", "F",
    "L", "G", "B", "D", "U", "J", "U", "Q", "A", "B", "S", "B", "A", "Z",
    "S", "F", "L">>

\* rotor stacks (wiring and notches per rotor, leftmost first)
Stacks ==
    { << <<Identity, <<>>>>, <<Identity, <<>>>> >>,
      << <<Identity, <<"J">>>>, <<RotorI, <<"K">>>> >>,
      << <<RotorI, <<"K">>>> >>,
      << <<Shifted, <<>>>>, <<Identity, <<"B">>>>, <<RotorI, <<"K", "E">>>> >> }

\* plug list and reflector; the second plug list holds malformed entries
Boards ==
    { << <<>>, Reversing >>,
      << << <<"A", "Q">>, <<"X">>, None, <<"B", "Z">> >>, Neighbours >> }

StartOffsets == {0, 1, 25}

Settings ==
    { EnigmaSetting(
          [i \in 1..Len(st) |-> RotorSetting(st[i][1], st[i][2], off[i])],
          b[1], b[2]) :
      st \in Stacks, off \in [1..3 -> StartOffsets], b \in Boards }

TestSetting ==
    EnigmaSetting(<<RotorSetting(Identity, <<>>, 0), RotorSetting(Identity, <<>>, 0)>>,
                  <<>>, Reversing)

MessageChars == {"A", "Z", "q", "1", "\n"}

SeqsUpTo(S, n) == UNION {[1..k -> S] : k \in 0..n}

Messages == SeqsUpTo(MessageChars, MaxLen) \cup {TestMessage}

NoCount == [advances |-> 0, encodings |-> 0, substitutions |-> 0]

NoCall == [op |-> "none", args |-> <<>>, ret |-> Ok(<<>>)]

\* no Setting object is shared
NoHeap ==
    [rotor_info |-> <<>>, plugs |-> <<>>, reflector |-> <<>>,
     offsets |-> [day |-> <<>>, keyed |-> <<>>]]

NoCodebook == [rotor_data |-> <<>>, plug_settings |-> <<>>, day_indicator |-> <<>>,
               reflector |-> <<>>]

----------------------------------------------------------------------------
(* encode(message, setting), one step per statement and per character,    *)
(* called twice in a row with the same Setting object                     *)

Init ==
    /\ setting \in Settings
    /\ message \in Messages
    /\ pc = "call"
    /\ cur = setting
    /\ plugged = <<>>
    /\ encoded_message = <<>>
    /\ result = Ok(<<>>)
    /\ count = NoCount
    /\ orig = message
    /\ round = 1
    /\ prev = setting
    /\ call = NoCall
    /\ heap = NoHeap
    /\ runs = <<>>
    /\ codebook_data = NoCodebook

\* encoder.py 200-201: the guard of encode
Validate ==
    /\ pc = "call"
    /\ IF ~_is_encodable(message)
       THEN /\ pc' = "raised"
            /\ result' = Raise("UnencodableMessageError")
       ELSE /\ pc' = "plug_in"
            /\ UNCHANGED result
    /\ UNCHANGED <<setting, message, cur, plugged, encoded_message, count, orig,
                   round, prev, call, codebook_data,
                   heap, runs>>

\* encoder.py 204: the message, upper-cased, through the plugboard
PlugIn ==
    /\ pc = "plug_in"
    /\ plugged' = _substitute(Upper(message), setting)
    /\ count' = [count EXCEPT !.substitutions = @ + 1]
    /\ pc' = "rotors"
    /\ UNCHANGED <<setting, message, cur, encoded_message, result, orig, round,
                   prev, call, codebook_data,
                   heap, runs>>

\* a loop that encodes the character before it advances the rotors
RotorStepEncodesFirst ==
    /\ pc = "rotors"
    /\ Len(encoded_message) < Len(plugged)
    /\ LET char == plugged[Len(encoded_message) + 1]
       IN  /\ prev' = cur
           /\ cur' = _advance_rotors(cur)
           /\ encoded_message' = Append(encoded_message, _encode_char(char, cur))
    /\ count' = [count EXCEPT !.advances = @ + 1, !.encodings = @ + 1]
    /\ UNCHANGED <<setting, message, pc, plugged, result, orig, round, call,
                   codebook_data,
                   heap, runs>>

\* a loop whose advance writes the new offsets into the caller's Setting object
RotorStepInPlace ==
    /\ pc = "rotors"
    /\ Len(encoded_message) < Len(plugged)
    /\ LET char == plugged[Len(encoded_message) + 1]
           advanced == _advance_rotors(cur)
       IN  /\ prev' = cur
           /\ cur' = advanced
           /\ setting' = advanced
           /\ encoded_message' = Append(encoded_message, _encode_char(char, advanced))
    /\ count' = [count EXCEPT !.advances = @ + 1, !.encodings = @ + 1]
    /\ UNCHANGED <<message, pc, plugged, result, orig, round, call, codebook_data,
                   heap, runs>>

\* a loop that advances the rotors and never gets to the next character
RotorStepOnSameCharacter ==
    /\ pc = "rotors"
    /\ Len(encoded_message) < Len(plugged)
    /\ prev' = cur
    /\ cur' = _advance_rotors(cur)
    /\ count' = [count EXCEPT !.advances = @ + 1, !.encodings = @ + 1]
    /\ UNCHANGED <<setting, message, pc, plugged, encoded_message, result, orig,
                   round, call, codebook_data, heap, runs>>

\* encoder.py 168-170: one round of the loop of _rotor_encode
RotorStep ==
    /\ pc = "rotors"
    /\ Len(encoded_message) < Len(plugged)
    /\ LET char == plugged[Len(encoded_message) + 1]
           advanced == _advance_rotors(cur)
       IN  /\ prev' = cur
           /\ cur' = advanced
           /\ encoded_message' = Append(encoded_message, _encode_char(char, advanced))
    /\ count' = [count EXCEPT !.advances = @ + 1, !.encodings = @ + 1]
    /\ UNCHANGED <<setting, message, pc, plugged, result, orig, round, call,
                   codebook_data,
                   heap, runs>>

\* encoder.py 172, 208-210: the loop is over; back through the plugboard
PlugOut ==
    /\ pc = "rotors"
    /\ Len(encoded_message) = Len(plugged)
    /\ result' = Ok(_substitute(encoded_message, setting))
    /\ count' = [count EXCEPT !.substitutions = @ + 1]
    /\ pc' = "done"
    /\ UNCHANGED <<setting, message, cur, plugged, encoded_message, orig, round,
                   prev, call, codebook_data,
                   heap, runs>>

\* the caller encodes the returned text again, passing the same Setting object
\* (test_rotor_encode, tests/test_encoder.py 214-216)
Reencode ==
    /\ pc = "done"
    /\ round = 1
    /\ message' = result.value
    /\ round' = 2
    /\ pc' = "call"
    /\ cur' = setting
    /\ plugged' = <<>>
    /\ encoded_message' = <<>>
    /\ count' = NoCount
    /\ UNCHANGED <<setting, result, orig, prev, call, codebook_data,
                   heap, runs>>

Next == Validate \/ PlugIn \/ RotorStep \/ PlugOut \/ Reencode

Spec == Init /\ [][Next]_vars


----------------------------------------------------------------------------
(* Claims about encode, checked under Spec *)

AllLetters(m) == Len(m) >= 1 /\ \A i \in 1..Len(m) : IsUpper(m[i]) \/ IsLower(m[i])

\* the Setting after k calls of _advance_rotors
RECURSIVE AdvanceTimes(_, _)
AdvanceTimes(s, k) == IF k = 0 THEN s ELSE _advance_rotors(AdvanceTimes(s, k - 1))

\* C1 as stated: encoding a message of letters (either case) twice from the
\* same starting Setting gives back the message itself.
C1_ReciprocityAsStated ==
    (round = 2 /\ pc = "done" /\ AllLetters(orig)) => result = Ok(orig)

\* C1 amended: encoding a message of letters twice from the same starting
\* Setting gives back the message in upper case.
C1_ReciprocityUpper ==
    (round = 2 /\ pc = "done" /\ AllLetters(orig)) => result = Ok(Upper(orig))

C1_Witness ==
    /\ round = 2 /\ pc = "done"
    /\ orig = <<"q", "A", "q">>
    /\ result = Ok(<<"Q", "A", "Q">>)
    /\ Len(setting.rotors) = 3
    /\ setting.plugs # <<>>
    /\ message # Upper(orig)

\* C4: a message that is empty or holds a non-letter makes encode raise
\* UnencodableMessageError before any substitution, advance or encoding.
C4_NonLettersRejected ==
    ~AllLetters(message) =>
        /\ pc \in {"call", "raised"}
        /\ count = NoCount
        /\ encoded_message = <<>>
        /\ pc = "raised" => result = Raise("UnencodableMessageError")

\* C7: encode returns as many characters as the message has, and the k-th is
\* the k-th upper-cased character through the plugboard, through the rotors
\* of the Setting advanced k times, and through the plugboard again; the
\* test message under the test Setting gives the test's expected text.
C7_StepBeforeEncode ==
    pc = "done" =>
        /\ result.kind = "return"
        /\ Len(result.value) = Len(message)
        /\ \A k \in 1..Len(message) :
               result.value[k] =
                   SubstituteChar(
                       _encode_char(SubstituteChar(upper(message[k]), setting.plugs),
                                    AdvanceTimes(setting, k)),
                       setting.plugs)
        /\ (setting = TestSetting /\ message = TestMessage) => result = Ok(TestEncoded)

C7_Witness ==
    /\ pc = "done" /\ round = 1
    /\ setting = TestSetting /\ message = TestMessage
    /\ result = Ok(TestEncoded)
    /\ count.advances = Len(TestMessage)

\* the statements and loop turns the running call of encode has left at most
StepsLeft ==
    CASE pc = "call" -> Len(message) + 3
      [] pc = "plug_in" -> Len(message) + 2
      [] pc = "rotors" -> Len(plugged) - Len(encoded_message) + 1
      [] OTHER -> 0

\* C17: a call of encode on a message of n characters ends: every step of
\* the call leaves it fewer steps to take, the loop has a next turn or is
\* over, and the call returns after exactly n advances of the rotors and n
\* character encodings, or raises UnencodableMessageError having made none.
C17_EncodeTerminates ==
    /\ [](pc = "done" =>
             /\ result.kind = "return"
             /\ count.advances = Len(message)
             /\ count.encodings = Len(message))
    /\ [](pc = "raised" =>
             /\ result = Raise("UnencodableMessageError")
             /\ count = NoCount)
    /\ [](pc = "rotors" =>
             /\ Len(plugged) = Len(message)
             /\ Len(encoded_message) <= Len(plugged)
             /\ count.advances = Len(encoded_message)
             /\ count.encodings = Len(encoded_message))
    /\ [](StepsLeft >= 0)
    /\ [][pc \notin {"done", "raised"} => StepsLeft' < StepsLeft]_vars

\* the second call of a run returned after 30 advances on three rotors
C17_Witness ==
    /\ pc = "done"
    /\ round = 2
    /\ Len(setting.rotors) = 3
    /\ Len(message) = 30
    /\ count.advances = 30
    /\ count.encodings = 30

\* C8: no step of encode changes the Setting the caller passed in, whether the
\* call returns or raises, and every call starts from that Setting's offsets.
C8_SettingUnchanged ==
    /\ [][setting' = setting]_vars
    /\ [](pc = "call" => cur = setting)

C8_Witness ==
    /\ round = 2 /\ pc = "done"
    /\ cur # setting
    /\ count.advances = MaxLen

\* the reflector sends no letter to itself
NoFixedPoint(reflector) == \A i \in 1..Len(reflector) : reflector[i] # UpperCase[i]

\* C22: under a Setting with permutation wirings, a reflector that is an
\* involution without fixed point and plug pairs that share no letter, every
\* character of what encode returns differs from the character of the
\* upper-cased message at the same position.
C22_NoLetterToItself ==
    (pc = "done" /\ NoFixedPoint(setting.reflector)) =>
        /\ result.kind = "return"
        /\ Len(result.value) = Len(message)
        /\ \A k \in 1..Len(message) : result.value[k] # Upper(message)[k]

\* a message of plugged and unplugged letters of either case encoded on three
\* rotors with plugs in use
C22_Witness ==
    /\ pc = "done" /\ round = 1
    /\ NoFixedPoint(setting.reflector)
    /\ Len(setting.rotors) = 3
    /\ setting.plugs # <<>>
    /\ message = <<"A", "q", "Z">>
    /\ result.kind = "return"
    /\ Len(result.value) = 3

----------------------------------------------------------------------------
(* _advance_rotors called again and again on its own result, as            *)
(* test_advance_rotors does                                                *)

\* most rotors in a stack that is advanced
MaxRotors == 3

\* most successive advances of one stack
MaxSteps == 3

\* wiring and notches; every notch of a kind is at one of AdvanceOffsets
RotorKinds ==
    { <<RotorI, <<"K">>>>, <<Identity, <<"J">>>>, <<Shifted, <<"B", "A">>>>,
      <<Identity, <<>>>> }

AdvanceOffsets == {0, 1, 9, 25}

\* the stack of test_advance_rotors with the given offsets
AdvanceTest(left, right) ==
    EnigmaSetting(<<RotorSetting(Identity, <<"J">>, left),
                    RotorSetting(RotorI, <<"K">>, right)>>, <<>>, <<>>)

\* a stack of n rotors of the given kinds at the given offsets
AdvanceSetting(n, kinds, off) ==
    EnigmaSetting([i \in 1..n |-> RotorSetting(kinds[i][1], kinds[i][2], off[i])],
                  <<>>, <<>>)

InitAdvance ==
    /\ \/ setting = AdvanceTest(0, 0)
       \/ \E n \in 2..MaxRotors :
              \E kinds \in [1..n -> RotorKinds], off \in [1..n -> AdvanceOffsets] :
                  setting = AdvanceSetting(n, kinds, off)
    /\ message = <<>>
    /\ pc = "advance"
    /\ cur = setting
    /\ plugged = <<>>
    /\ encoded_message = <<>>
    /\ result = Ok(<<>>)
    /\ count = NoCount
    /\ orig = <<>>
    /\ round = 1
    /\ prev = setting
    /\ call = NoCall
    /\ heap = NoHeap
    /\ runs = <<>>
    /\ codebook_data = NoCodebook

\* tests/test_encoder.py 122, 132: setting = encoder._advance_rotors(setting)
Advance ==
    /\ pc = "advance"
    /\ count.advances < MaxSteps
    /\ prev' = cur
    /\ cur' = _advance_rotors(cur)
    /\ count' = [count EXCEPT !.advances = @ + 1]
    /\ UNCHANGED <<setting, message, pc, plugged, encoded_message, result, orig,
                   round, call, codebook_data,
                   heap, runs>>

NextAdvance == Advance

SpecAdvance == InitAdvance /\ [][NextAdvance]_vars

(* Claims about _advance_rotors, checked under SpecAdvance *)

Stepped == pc = "advance" /\ count.advances > 0

\* rotor i moved by one position in the last step
Moved(i) == cur.rotors[i].offset = (prev.rotors[i].offset + 1) % 26

\* rotor i kept its position in the last step
Stayed(i) == cur.rotors[i].offset = prev.rotors[i].offset

C18_RightmostAlwaysSteps ==
    Stepped =>
        LET n == Len(cur.rotors)
        IN  /\ Len(prev.rotors) = n
            /\ Moved(n)
            /\ cur.rotors[n].offset = (setting.rotors[n].offset + count.advances) % 26
            /\ \E b \in 1..n :
                   /\ \A i \in b..n : Moved(i)
                   /\ \A i \in 1..(b - 1) : Stayed(i)
            /\ \A i \in 1..n :
                   /\ cur.rotors[i].sequence = prev.rotors[i].sequence
                   /\ cur.rotors[i].notches = prev.rotors[i].notches
                   /\ cur.rotors[i].offset \in 0..25
            /\ cur.plugs = prev.plugs
            /\ cur.reflector = prev.reflector

\* the third step from offset 25: the rightmost rotor is at 2 and took the
\* middle rotor along, past 25, while the left rotor stayed
C18_Witness ==
    /\ Stepped
    /\ count.advances = 3
    /\ Len(cur.rotors) = 3
    /\ setting.rotors[3].offset = 25
    /\ cur.rotors[3].offset = 2
    /\ prev.rotors[2].offset = 25 /\ cur.rotors[2].offset = 0
    /\ Stayed(1)

\* three rotors with one notch each
SingleNotched ==
    /\ Len(cur.rotors) = 3
    /\ \A i \in 1..3 : Len(cur.rotors[i].notches) = 1

----------------------------------------------------------------------------
(* _advance_rotors called on its own result until the stack has been        *)
(* through all the positions of two rotors                                  *)

\* most successive advances of one stack: the positions of two rotors
MaxTurns == 676

PeriodOffsets == {0, 9}

InitPeriod ==
    /\ \/ \E kinds \in [1..2 -> RotorKinds], off \in [1..2 -> PeriodOffsets] :
              setting = AdvanceSetting(2, kinds, off)
       \/ \E kinds \in [1..3 -> RotorKinds] :
              setting = AdvanceSetting(3, kinds, <<0, 9, 1>>)
    /\ message = <<>>
    /\ pc = "turn"
    /\ cur = setting
    /\ plugged = <<>>
    /\ encoded_message = <<>>
    /\ result = Ok(<<>>)
    /\ count = NoCount
    /\ orig = <<>>
    /\ round = 1
    /\ prev = setting
    /\ call = NoCall
    /\ heap = NoHeap
    /\ runs = <<>>
    /\ codebook_data = NoCodebook

\* setting = encoder._advance_rotors(setting)
Turn ==
    /\ pc = "turn"
    /\ count.advances < MaxTurns
    /\ prev' = cur
    /\ cur' = _advance_rotors(cur)
    /\ count' = [count EXCEPT !.advances = @ + 1]
    /\ UNCHANGED <<setting, message, pc, plugged, encoded_message, result, orig,
                   round, call, codebook_data, heap, runs>>

NextPeriod == Turn

SpecPeriod == InitPeriod /\ [][NextPeriod]_vars

(* Claims about the cycle of _advance_rotors, checked under SpecPeriod *)

Turned == pc = "turn" /\ count.advances > 0

\* the rotors of s at the offsets off
WithOffsets(s, off) ==
    EnigmaSetting([i \in 1..Len(s.rotors) |->
                       RotorSetting(s.rotors[i].sequence, s.rotors[i].notches, off[i])],
                  s.plugs, s.reflector)

\* one step back, from rotor i leftwards: a rotor that was turned goes back
\* by one position, and its left neighbour was turned if it was and is now
\* back at a notch
RECURSIVE RetreatFrom(_, _, _)
RetreatFrom(rotors, i, turned) ==
    IF i = 0 THEN rotors
    ELSE LET rotor == rotors[i]
             before == RotorSetting(rotor.sequence, rotor.notches,
                                    IF turned THEN PyMod(rotor.offset - 1, 26)
                                    ELSE rotor.offset)
         IN  RetreatFrom([rotors EXCEPT ![i] = before], i - 1, turned /\ AtNotch(before))

Retreat(s) == EnigmaSetting(RetreatFrom(s.rotors, Len(s.rotors), TRUE), s.plugs, s.reflector)

NoNotches(s) == \A i \in 1..Len(s.rotors) : s.rotors[i].notches = <<>>

\* C23: _advance_rotors can be undone and its steps go round in a cycle. The
\* Setting before a step is found from the Setting after it, and of two
\* rotors at any other offsets in 0..25 the same step makes another Setting;
\* a stack of two rotors is back at the Setting it started from after 676
\* steps; a stack without notches is back there after every 26 steps and at
\* no other step, and only its rightmost rotor moves.
C23_AdvanceCycles ==
    Turned =>
        LET n == Len(cur.rotors)
        IN  /\ Retreat(cur) = prev
            /\ (n = 2 /\ count.advances <= MaxSteps) =>
                   \A off \in [1..2 -> 0..25] :
                       _advance_rotors(WithOffsets(prev, off)) = cur
                           => WithOffsets(prev, off) = prev
            /\ (n = 2 /\ count.advances = 676) => cur = setting
            /\ NoNotches(setting) =>
                   /\ cur = setting <=> count.advances % 26 = 0
                   /\ \A i \in 1..(n - 1) :
                          cur.rotors[i].offset = setting.rotors[i].offset

\* two rotors, the right one with one notch and started at it, back at the
\* start after 676 steps
C23_Witness ==
    /\ Turned
    /\ count.advances = 676
    /\ Len(cur.rotors) = 2
    /\ Len(cur.rotors[2].notches) = 1
    /\ AtNotch(setting.rotors[2])
    /\ cur = setting
    /\ prev # setting

----------------------------------------------------------------------------
(* The functions of encoder.py called one at a time on drawn arguments *)

\* most entries of a plug list
MaxPlugs == 2

\* plug entries: pairs, a pair that shares a letter with another, and
\* malformed entries (one character, three characters, None)
PlugEntries ==
    { <<"A", "Q">>, <<"q", "Z">>, <<"Q", "B">>, <<"A">>, <<"A", "Q", "B">>, None }

PlugLists == SeqsUpTo(PlugEntries, MaxPlugs)

SubstituteMessages == SeqsUpTo({"A", "Q", "q"}, MaxLen) \cup {None, <<"A", "1", "Q">>}

\* the Settings re-keyed: every stack and board, at offsets 0 and at offsets 25
ApiSettings ==
    { s \in Settings :
        \/ \A i \in 1..Len(s.rotors) : s.rotors[i].offset = 0
        \/ s.plugs = <<>> /\ \A i \in 1..Len(s.rotors) : s.rotors[i].offset = 25 }

IndicatorChars == {"A", "K", "z"}

\* indicators shorter than, as long as and longer than any stack of Settings
Indicators == SeqsUpTo(IndicatorChars, 4)

InitApi ==
    /\ setting \in ApiSettings
    /\ message = <<>>
    /\ pc = "api"
    /\ cur = setting
    /\ plugged = <<>>
    /\ encoded_message = <<>>
    /\ result = Ok(<<>>)
    /\ count = NoCount
    /\ orig = <<>>
    /\ round = 1
    /\ prev = setting
    /\ call = NoCall
    /\ heap = NoHeap
    /\ runs = <<>>
    /\ codebook_data = NoCodebook

ApiFrame ==
    /\ pc' = "returned"
    /\ UNCHANGED <<setting, message, cur, plugged, encoded_message, result, count,
                   orig, round, prev, codebook_data,
                   heap, runs>>

\* encoder._is_encodable(m)
CallIsEncodable ==
    /\ pc = "api"
    /\ \E m \in Messages :
           call' = [op |-> "_is_encodable", args |-> <<m>>, ret |-> Ok(_is_encodable(m))]
    /\ ApiFrame

\* encoder._substitute(m, EnigmaSetting([], plugs, "")), as test_substitute calls it
CallSubstitute ==
    /\ pc = "api"
    /\ \E m \in SubstituteMessages, plugs \in PlugLists :
           call' = [op |-> "_substitute", args |-> <<m, plugs>>,
                    ret |-> Ok(_substitute(m, EnigmaSetting(<<>>, plugs, <<>>)))]
    /\ ApiFrame

\* EnigmaSetting.with_indicator(setting, indicator)
CallWithIndicator ==
    /\ pc = "api"
    /\ \E indicator \in Indicators :
           call' = [op |-> "with_indicator", args |-> <<setting, indicator>>,
                    ret |-> with_indicator(setting, indicator)]
    /\ ApiFrame

\* encoder._encode_char(character, setting) on a letter A-Z, the Setting
\* re-keyed and advanced some steps before
CallEncodeChar ==
    /\ pc = "api"
    /\ \E character \in Range(UpperCase), indicator \in Indicators, k \in 0..MaxSteps :
           /\ Len(indicator) = Len(setting.rotors)
           /\ LET s == AdvanceTimes(with_indicator(setting, indicator).value, k)
              IN  call' = [op |-> "_encode_char", args |-> <<character, s>>,
                           ret |-> Ok(_encode_char(character, s))]
    /\ ApiFrame

NextApi == CallIsEncodable \/ CallSubstitute \/ CallWithIndicator \/ CallEncodeChar

SpecApi == InitApi /\ [][NextApi]_vars

(* Claims about the single functions, checked under SpecApi *)

\* C3: _is_encodable accepts a message exactly when it is non-empty and every
\* character is a letter A-Z or a-z; a line terminator anywhere, also at the
\* end, makes it reject.
C3_OnlyLettersEncodable ==
    call.op = "_is_encodable" =>
        (call.ret = Ok(TRUE) <=> AllLetters(call.args[1]))

\* C5: with_indicator fails whenever the indicator's length differs from the
\* number of rotors, and never returns a Setting then.
C5_LengthMismatchFails ==
    (call.op = "with_indicator" /\ Len(call.args[2]) # Len(call.args[1].rotors)) =>
        call.ret.kind = "raise"

\* every entry has exactly two characters and no letter is in two entries
WellFormedPlugs(plugs) ==
    /\ \A i \in 1..Len(plugs) : ~IsNone(plugs[i]) /\ Len(plugs[i]) = 2
    /\ \A i, j \in 1..Len(plugs) : i # j => Range(plugs[i]) \cap Range(plugs[j]) = {}

\* C9: substituting twice with the same well-formed plug list gives back the
\* message, and with no plugs one substitution already does.
C9_SubstituteSelfInverse ==
    (call.op = "_substitute" /\ ~IsNone(call.args[1])) =>
        LET m == call.args[1]
            plugs == call.args[2]
        IN  /\ WellFormedPlugs(plugs) =>
                   _substitute(call.ret.value, EnigmaSetting(<<>>, plugs, <<>>)) = m
            /\ plugs = <<>> => call.ret = Ok(m)

C9_Witness ==
    /\ call.op = "_substitute"
    /\ call.args = << <<"A", "q", "Q">>, << <<"A", "Q">>, <<"q", "Z">> >> >>
    /\ call.ret = Ok(<<"Q", "Z", "A">>)

\* the plug list without its malformed entries
WellFormedEntries(plugs) == SelectSeq(plugs, LAMBDA plug : ~IsNone(plug) /\ Len(plug) = 2)

\* C10: _substitute raises nothing, gives what it gives for the plug list
\* without the entries that are None or not two characters long, and gives
\* the empty string for the message None.
C10_MalformedPlugsIgnored ==
    call.op = "_substitute" =>
        LET m == call.args[1]
            plugs == call.args[2]
        IN  /\ call.ret.kind = "return"
            /\ IsNone(m) => call.ret = Ok(<<>>)
            /\ ~IsNone(m) =>
                   call.ret.value =
                       _substitute(m, EnigmaSetting(<<>>, WellFormedEntries(plugs), <<>>))

C10_Witness ==
    /\ call.op = "_substitute"
    /\ call.args = << <<"A", "1", "Q">>, << <<"A">>, <<"Q", "B">> >> >>
    /\ call.ret = Ok(<<"A", "1", "B">>)

\* the Setting with every rotor turned back to offset 0
AtOffsetZero(s) ==
    EnigmaSetting([i \in 1..Len(s.rotors) |->
                       RotorSetting(s.rotors[i].sequence, s.rotors[i].notches, 0)],
                  s.plugs, s.reflector)

\* C11: with_indicator on an indicator of one character per rotor returns a
\* Setting with the plugs, reflector, wirings and notches of the Setting it
\* was called on; the offset of rotor i is the position of indicator[i] in
\* that rotor's wiring whatever the offsets were before; the Setting it was
\* called on is as it was.
C11_RekeyFrame ==
    (call.op = "with_indicator" /\ Len(call.args[2]) = Len(call.args[1].rotors)) =>
        LET s == call.args[1]
            indicator == call.args[2]
            new == call.ret.value
        IN  /\ call.ret.kind = "return"
            /\ setting = s
            /\ new.plugs = s.plugs
            /\ new.reflector = s.reflector
            /\ Len(new.rotors) = Len(s.rotors)
            /\ \A i \in 1..Len(s.rotors) :
                   /\ new.rotors[i].sequence = s.rotors[i].sequence
                   /\ new.rotors[i].notches = s.rotors[i].notches
                   /\ indicator[i] \in Range(s.rotors[i].sequence) =>
                          /\ new.rotors[i].offset \in 0..25
                          /\ s.rotors[i].sequence[new.rotors[i].offset + 1] = indicator[i]
            /\ call.ret = with_indicator(AtOffsetZero(s), indicator)

\* a three-rotor Setting at offsets 25 re-keyed to AKA
C11_Witness ==
    /\ call.op = "with_indicator"
    /\ call.args[2] = <<"A", "K", "A">>
    /\ Len(setting.rotors) = 3
    /\ \A i \in 1..3 : setting.rotors[i].offset = 25
    /\ call.ret.kind = "return"
    /\ call.ret.value.rotors[1].offset = 25
    /\ call.ret.value.rotors[2].offset = 10
    /\ call.ret.value.rotors[3].offset = 20

\* every rotor of s has the identity wiring and is at offset 0
IdentityAtZero(s) ==
    \A i \in 1..Len(s.rotors) :
        s.rotors[i].sequence = Identity /\ s.rotors[i].offset = 0

\* C20: at one Setting, whatever its offsets, _encode_char of what
\* _encode_char gives for a letter A-Z is that letter; with identity-wired
\* rotors at offset 0 _encode_char gives the reflector's letter for it, Z for
\* A and A for Z under the reversing reflector.
C20_EncodeCharInvolution ==
    call.op = "_encode_char" =>
        LET c == call.args[1]
            s == call.args[2]
        IN  /\ call.ret.kind = "return"
            /\ _encode_char(call.ret.value, s) = c
            /\ IdentityAtZero(s) =>
                   /\ call.ret.value = s.reflector[_char_to_int(c) + 1]
                   /\ (s.reflector = Reversing /\ c = "A") => call.ret.value = "Z"
                   /\ (s.reflector = Reversing /\ c = "Z") => call.ret.value = "A"

\* three different rotors re-keyed to AKK and turned three times, where A is
\* encoded to a letter that is not the reflector's letter for A
C20_Witness ==
    /\ call.op = "_encode_char"
    /\ call.args[1] = "A"
    /\ Len(call.args[2].rotors) = 3
    /\ call.args[2].rotors[1].offset = 25
    /\ call.args[2].rotors[3].offset = 4
    /\ call.ret.value # call.args[2].reflector[1]
    /\ call.ret.value # "A"

\* the wiring W rotated left by k positions: position i holds W[(i + k) mod 26]
RotatedLeft(W, k) == [i \in 1..Len(W) |-> W[((i - 1 + k) % Len(W)) + 1]]

\* rotor with its wiring rotated left by its offset, at offset 0
RotatedToZero(rotor) ==
    RotorSetting(RotatedLeft(rotor.sequence, rotor.offset), rotor.notches, 0)

\* C21: a rotor at offset k in 0..25 does in _encode_char what the rotor with
\* the wiring rotated left by k does at offset 0, the other rotors and the
\* reflector being the same: the letter encoded is the same, and so are the
\* rotor's own forward and reverse passes of the letter.
C21_OffsetIsRotatedWiring ==
    call.op = "_encode_char" =>
        LET c == call.args[1]
            s == call.args[2]
        IN  \A j \in 1..Len(s.rotors) :
                s.rotors[j].offset \in 0..25 =>
                    LET rotor == s.rotors[j]
                        rotated == RotatedToZero(rotor)
                    IN  /\ _encode_char(c, [s EXCEPT !.rotors[j] = rotated]) = call.ret.value
                        /\ ForwardPass(c, <<rotated>>, 1) = ForwardPass(c, <<rotor>>, 1)
                        /\ _reverse_encode_rotor(c, rotated) = _reverse_encode_rotor(c, rotor)

\* the identity wiring at offset 1 encodes A to X under the reversing
\* reflector, as BCDEFGHIJKLMNOPQRSTUVWXYZA at offset 0 does
C21_Witness ==
    /\ call.op = "_encode_char"
    /\ call.args[1] = "A"
    /\ call.args[2] = EnigmaSetting(<<RotorSetting(Identity, <<>>, 0),
                                      RotorSetting(Identity, <<>>, 1)>>,
                                    <<>>, Reversing)
    /\ call.ret = Ok("X")
    /\ RotatedToZero(call.args[2].rotors[2]).sequence = Shifted
    /\ _encode_char("A", EnigmaSetting(<<RotorSetting(Identity, <<>>, 0),
                                         RotorSetting(Shifted, <<>>, 0)>>,
                                       <<>>, Reversing)) = "X"

----------------------------------------------------------------------------
(* A Setting re-keyed and advanced in any order *)

InitRekey ==
    /\ setting \in ApiSettings
    /\ message = <<>>
    /\ pc = "advance"
    /\ cur = setting
    /\ plugged = <<>>
    /\ encoded_message = <<>>
    /\ result = Ok(<<>>)
    /\ count = NoCount
    /\ orig = <<>>
    /\ round = 1
    /\ prev = setting
    /\ call = NoCall
    /\ heap = NoHeap
    /\ runs = <<>>
    /\ codebook_data = NoCodebook

\* setting = setting.with_indicator(indicator), one letter of either case per rotor
Rekey ==
    /\ pc = "advance"
    /\ \E indicator \in Indicators :
           /\ Len(indicator) = Len(cur.rotors)
           /\ prev' = cur
           /\ cur' = with_indicator(cur, indicator).value
    /\ UNCHANGED <<setting, message, pc, plugged, encoded_message, result, count,
                   orig, round, call, codebook_data,
                   heap, runs>>

NextRekey == Advance \/ Rekey

SpecRekey == InitRekey /\ [][NextRekey]_vars

\* C12: in every Setting reached from offsets in 0..25 by advance steps and
\* re-keyings with one letter of either case per rotor, every rotor's offset
\* is in 0..25.
C12_OffsetsInRange ==
    \A i \in 1..Len(cur.rotors) : cur.rotors[i].offset \in 0..25

----------------------------------------------------------------------------
(* views._encode, then views._decode on the frame it returned *)

\* the codebook settings of a day whose rotors show the letters of day_indicator
Codebook(st, b, day_indicator) ==
    [rotor_data |-> st, plug_settings |-> b[1], day_indicator |-> day_indicator,
     reflector |-> b[2]]

FrameStacks == {st \in Stacks : Len(st) <= 2}

DayIndicators == {<<"A", "A">>, <<"Q", "K">>, <<"K">>, <<"Z">>}

Codebooks ==
    { cb \in { Codebook(st, b, d) : st \in FrameStacks, b \in Boards, d \in DayIndicators } :
        Len(cb.day_indicator) = Len(cb.rotor_data) }

\* operator-chosen indicators: one or two characters, either case
FrameIndicators == {x \in Indicators : Len(x) \in 1..2}

Plaintexts == {<<"A">>, <<"Q", "A", "Q">>, <<"q", "A">>, <<"A", "1">>, <<>>}

InitFrame ==
    /\ codebook_data \in Codebooks
    /\ setting = EnigmaSetting(<<>>, <<>>, <<>>)
    /\ message = <<>>
    /\ pc = "encode"
    /\ cur = setting
    /\ plugged = <<>>
    /\ encoded_message = <<>>
    /\ result = Ok(<<>>)
    /\ count = NoCount
    /\ orig = <<>>
    /\ round = 1
    /\ prev = setting
    /\ call = NoCall
    /\ heap = NoHeap
    /\ runs = <<>>

\* views.encode_view: _encode(message, indicator_indicator, message_indicator,
\* codebook_data)
EncodeFramed ==
    /\ pc = "encode"
    /\ \E m \in Plaintexts, ii \in FrameIndicators, mi \in FrameIndicators :
           /\ orig' = m
           /\ call' = [op |-> "_encode", args |-> <<m, ii, mi>>,
                       ret |-> _encode(m, ii, mi, codebook_data)]
    /\ pc' = "decode"
    /\ UNCHANGED <<setting, message, cur, plugged, encoded_message, result, count,
                   round, prev, codebook_data,
                   heap, runs>>

\* views.decode_view: _decode(message, codebook_data), on the frame received
DecodeFramed ==
    /\ pc = "decode"
    /\ call.ret.kind = "return"
    /\ message' = call.ret.value
    /\ result' = _decode(call.ret.value, codebook_data)
    /\ pc' = "decoded"
    /\ UNCHANGED <<setting, cur, plugged, encoded_message, count, orig, round, prev,
                   call, codebook_data,
                   heap, runs>>

\* longest frame received without having been made by _encode
MaxFrame == 5

\* received frames: letters of either case, shorter than, as long as and
\* longer than the two prefixes
Frames == SeqsUpTo({"A", "q", "Z"}, MaxFrame)

\* views.decode_view: _decode(message, codebook_data), on any frame
DecodeReceived ==
    /\ pc = "encode"
    /\ \E frame \in Frames :
           /\ message' = frame
           /\ result' = _decode(frame, codebook_data)
    /\ pc' = "received"
    /\ UNCHANGED <<setting, cur, plugged, encoded_message, count, orig, round, prev,
                   call, codebook_data,
                   heap, runs>>

NextFrame == EncodeFramed \/ DecodeFramed \/ DecodeReceived

SpecFrame == InitFrame /\ [][NextFrame]_vars

(* Claims about the framed protocol, checked under SpecFrame *)

\* C2: decoding the frame made from a plaintext of letters and two indicators
\* of one character per rotor gives back the plaintext, up to the case of its
\* letters.
C2_FramedRoundTrip ==
    (/\ pc = "decoded"
     /\ AllLetters(orig)
     /\ Len(call.args[2]) = Len(codebook_data.rotor_data)
     /\ Len(call.args[3]) = Len(codebook_data.rotor_data)) =>
        /\ result.kind = "return"
        /\ Upper(result.value) = Upper(orig)

\* the day Setting of a codebook: its rotors showing the day indicator, its
\* plugs and its reflector
DaySetting(cb) ==
    with_indicator(
        EnigmaSetting([i \in 1..Len(cb.rotor_data) |->
                           RotorSetting(cb.rotor_data[i][1], cb.rotor_data[i][2], 0)],
                      cb.plug_settings, cb.reflector),
        cb.day_indicator).value

\* s re-keyed with an indicator of one letter per rotor
Rekeyed(s, indicator) == with_indicator(s, indicator).value

AllUpper(m) == Len(m) > 0 /\ \A i \in 1..Len(m) : IsUpper(m[i])

\* C13: the frame _encode returns for upper-case letters is encode of the
\* indicator indicator under the day Setting, then encode of the message
\* indicator under the day Setting re-keyed with the indicator indicator,
\* then encode of the plaintext under that Setting re-keyed with the message
\* indicator, with nothing between them; its length is twice the rotor count
\* plus the length of the plaintext.
C13_FrameOfEncodes ==
    LET m == call.args[1]
        ii == call.args[2]
        mi == call.args[3]
        day == DaySetting(codebook_data)
        r == Len(codebook_data.rotor_data)
    IN  (/\ call.op = "_encode"
         /\ AllUpper(m) /\ AllUpper(ii) /\ AllUpper(mi)
         /\ Len(ii) = r /\ Len(mi) = r) =>
            /\ call.ret.kind = "return"
            /\ Len(call.ret.value) = 2 * r + Len(m)
            /\ call.ret.value =
                   encode(ii, day).value
                   \o encode(mi, Rekeyed(day, ii)).value
                   \o encode(m, Rekeyed(Rekeyed(day, ii), mi)).value

\* what _decode makes of one segment under the Setting s: the stepped rotors,
\* then the plugboard
DecodePass(x, s) == _substitute(_rotor_encode(Upper(x), s), s)

OtherFrames ==
    LET r == Len(codebook_data.rotor_data)
    IN  { [day_indicator |-> d, indicator_indicator |-> ii,
           ret |-> _encode(call.args[1], ii, call.args[3],
                           [codebook_data EXCEPT !.day_indicator = d])] :
            d \in {x \in DayIndicators : Len(x) = r},
            ii \in {x \in FrameIndicators : Len(x) = r} }

\* C15: the body segment of the frame _encode returns is the same under
\* every day indicator and every indicator indicator, the plaintext, the
\* message indicator, the rotors, plugs and reflector being the same; the
\* second prefix is the same under every day indicator.
C15_BodyIndependentOfDayKey ==
    LET r == Len(codebook_data.rotor_data)
        frame == call.ret.value
    IN  (/\ pc = "decode"
         /\ call.ret.kind = "return"
         /\ Len(call.args[2]) = r /\ Len(call.args[3]) = r) =>
            \A other \in OtherFrames :
                /\ other.ret.kind = "return"
                /\ Slice(other.ret.value, 2 * r, Len(other.ret.value))
                       = Slice(frame, 2 * r, Len(frame))
                /\ other.indicator_indicator = call.args[2] =>
                       Slice(other.ret.value, r, 2 * r) = Slice(frame, r, 2 * r)

\* a frame of two prefixes and a body of three letters, and another day
\* indicator and indicator indicator under which both prefixes are different
C15_Witness ==
    /\ pc = "decode"
    /\ call.ret.kind = "return"
    /\ Len(codebook_data.rotor_data) = 2
    /\ Len(call.args[1]) = 3
    /\ Len(call.args[2]) = 2 /\ Len(call.args[3]) = 2
    /\ \E other \in OtherFrames :
           /\ Slice(other.ret.value, 0, 2) # Slice(call.ret.value, 0, 2)
           /\ Slice(other.ret.value, 2, 4) # Slice(call.ret.value, 2, 4)

----------------------------------------------------------------------------
(* encode called concurrently on Settings that share their wirings, notch   *)
(* lists, plug list and reflector                                           *)

\* number of concurrent encode calls
NumRuns == 2

ParallelMessages == {<<"A", "Q">>, <<"q", "A", "Z">>, <<"A", "1">>}

\* the offsets of the rotors of s
Offsets(s) == [i \in 1..Len(s.rotors) |-> s.rotors[i].offset]

\* the EnigmaSetting whose RotorSettings hold the offsets and refer to the
\* wirings, notch lists, plug list and reflector on the heap h
SettingAt(h, offsets) ==
    EnigmaSetting([i \in 1..Len(h.rotor_info) |->
                       RotorSetting(h.rotor_info[i].sequence, h.rotor_info[i].notches,
                                    offsets[i])],
                  h.plugs, h.reflector)

\* the Setting that the local name `setting` of run p refers to
Deref(p) ==
    SettingAt(heap, IF runs[p].cur.ref = "local" THEN runs[p].cur.offsets
                    ELSE heap.offsets[runs[p].cur.ref])

\* the locals of encode(m, s) at its call, s being the object `ref` of the
\* heap h; alone is the outcome of the same call made on its own
NewRun(h, ref, m) ==
    [setting |-> ref, message |-> m, pc |-> "call",
     cur |-> [ref |-> ref, offsets |-> <<>>],
     plugged |-> <<>>, encoded_message |-> <<>>, result |-> Ok(<<>>),
     alone |-> encode(m, SettingAt(h, h.offsets[ref]))]

\* the shared objects: a day Setting and the Setting with_indicator made of it
SharedHeap(day) ==
    [rotor_info |-> [i \in 1..Len(day.rotors) |->
                        [sequence |-> day.rotors[i].sequence,
                         notches |-> day.rotors[i].notches]],
     plugs |-> day.plugs,
     reflector |-> day.reflector,
     offsets |-> [day |-> Offsets(day),
                  keyed |-> Offsets(Rekeyed(day, [i \in 1..Len(day.rotors) |-> "K"]))]]

InitParallel ==
    /\ setting \in ApiSettings
    /\ heap = SharedHeap(setting)
    /\ runs \in [1..NumRuns -> { NewRun(heap, ref, m) :
                                    ref \in {"day", "keyed"}, m \in ParallelMessages }]
    /\ message = <<>>
    /\ pc = "parallel"
    /\ cur = setting
    /\ plugged = <<>>
    /\ encoded_message = <<>>
    /\ result = Ok(<<>>)
    /\ count = NoCount
    /\ orig = <<>>
    /\ round = 1
    /\ prev = setting
    /\ call = NoCall
    /\ codebook_data = NoCodebook

ParallelFrame ==
    UNCHANGED <<setting, message, pc, cur, plugged, encoded_message, result, count,
                orig, round, prev, call, codebook_data>>

\* encode, lines 200-204, in run p: the check of the message and the first
\* plugboard pass
ParallelStart(p) ==
    /\ runs[p].pc = "call"
    /\ IF ~_is_encodable(runs[p].message)
       THEN runs' = [runs EXCEPT ![p].pc = "raised",
                                 ![p].result = Raise("UnencodableMessageError")]
       ELSE runs' = [runs EXCEPT ![p].pc = "rotors",
                                 ![p].plugged =
                                     _substitute(Upper(runs[p].message), Deref(p))]
    /\ UNCHANGED heap
    /\ ParallelFrame

\* a step that turns the rotors of the Setting object it was handed, instead
\* of building a new one
ParallelStepInPlace(p) ==
    /\ runs[p].pc = "rotors"
    /\ Len(runs[p].encoded_message) < Len(runs[p].plugged)
    /\ LET new == _advance_rotors(Deref(p))
           char == runs[p].plugged[Len(runs[p].encoded_message) + 1]
       IN  /\ runs' = [runs EXCEPT ![p].encoded_message = Append(@, _encode_char(char, new))]
           /\ heap' = [heap EXCEPT !.offsets[runs[p].cur.ref] = Offsets(new)]
    /\ ParallelFrame

\* _rotor_encode, lines 168-170, in run p: one turn of the loop; the local
\* name `setting` is bound to the new object _advance_rotors returns
ParallelStep(p) ==
    /\ runs[p].pc = "rotors"
    /\ Len(runs[p].encoded_message) < Len(runs[p].plugged)
    /\ LET new == _advance_rotors(Deref(p))
           char == runs[p].plugged[Len(runs[p].encoded_message) + 1]
       IN  runs' = [runs EXCEPT ![p].cur = [ref |-> "local", offsets |-> Offsets(new)],
                                ![p].encoded_message = Append(@, _encode_char(char, new))]
    /\ UNCHANGED heap
    /\ ParallelFrame

\* encode, lines 206-210, in run p: the second plugboard pass and the return
ParallelFinish(p) ==
    /\ runs[p].pc = "rotors"
    /\ Len(runs[p].encoded_message) = Len(runs[p].plugged)
    /\ runs' = [runs EXCEPT ![p].pc = "done",
                            ![p].result =
                                Ok(_substitute(runs[p].encoded_message,
                                               SettingAt(heap, heap.offsets[runs[p].setting])))]
    /\ UNCHANGED heap
    /\ ParallelFrame

NextParallel ==
    \E p \in 1..NumRuns : ParallelStart(p) \/ ParallelStep(p) \/ ParallelFinish(p)

SpecParallel == InitParallel /\ [][NextParallel]_vars

\* C16: whatever the order in which concurrent encode calls on Settings
\* sharing their wirings, notch lists, plug list and reflector take their
\* steps, each call ends with the outcome it has when made alone, and no
\* step writes to a shared object.
C16_RunsDoNotInterfere ==
    /\ [](\A p \in 1..Len(runs) :
             runs[p].pc \in {"done", "raised"} => runs[p].result = runs[p].alone)
    /\ [][heap' = heap]_vars

\* two calls handed the same Setting object, both ended after steps of one
\* fell between steps of the other
C16_Witness ==
    /\ pc = "parallel"
    /\ runs[1].setting = runs[2].setting
    /\ runs[1].pc = "done" /\ runs[2].pc = "done"
    /\ Len(runs[1].message) = 3 /\ Len(runs[2].message) = 2
    /\ Len(heap.rotor_info) = 3
    /\ runs[1].result # runs[2].result

============================================================================
